---- MODULE Spec2Model ----
(***************************************************************************)
(* The conversation controller of the career-compass chat application      *)
(* (the App component): the state held in the component's useState hooks,  *)
(* the mount effect that runs initializeChat, the submit handler           *)
(* handleSendMessage, and the continuations of both after each await.      *)
(*                                                                         *)
(* JavaScript runs every continuation (the code between two awaits) to its *)
(* end before anything else runs, so each action below is one such run.    *)
(* State setters are applied in call order; updates made in a discrete DOM *)
(* event (submit, change) are flushed before the next event, so a handler  *)
(* reads the current state.                                                *)
(*                                                                         *)
(* The handlers are taken as callable in any state: the disabled attribute *)
(* of the controls belongs to the page; each handler has its own guard.    *)
(*                                                                         *)
(* Text is a sequence of one-character strings. An id is the pair of its   *)
(* prefix and the Date.now() value it was built from.                      *)
(***************************************************************************)
EXTENDS Naturals, Sequences, FiniteSets

VARIABLES
    chat,        \* useState<Chat | null>: NoChat or the session in use
    messages,    \* useState<Message[]>
    userInput,   \* useState(''): the input buffer
    isLoading,   \* useState(true): the pending flag
    now,         \* the value the last Date.now() call returned
    turns,       \* the calls of initializeChat / handleSendMessage made so far,
                 \* each with its locals and its position
    sent,        \* the sendMessageStream calls made to the provider, in order
    strictDev,   \* whether React.StrictMode re-runs mount effects (development build)
    effectRuns,  \* how many times the mount effect has run
    sessionOk,   \* whether createChatSession() returns a session (it makes no
                 \* request: it returns or throws the same way at every call)
    lastOp       \* "ignored" when the last step was a submission that returned at
                 \* the guard, "step" after any other step

vars == <<chat, messages, userInput, isLoading, now, turns, sent, strictDev,
          effectRuns, sessionOk, lastOp>>

----------------------------------------------------------------------------
(* Bounds *)

MaxTurns == 3       \* calls of initializeChat and accepted submissions, together
MaxFrags == 2       \* fragments a provider stream yields
MaxClock == 1       \* the last value of the clock

----------------------------------------------------------------------------
(* Data *)

USER == "user"
BOT == "bot"

NoChat == 0
NoId == [tag |-> "none", t |-> 0]

Whitespace == {" ", "\n", "\t"}

\* What the user types for the k-th turn, and what else the input buffer can hold.
UserScript == << <<"a", " ">>, <<"b">>, <<" ", "c">>, <<"d">> >>
Blanks == { <<>>, <<" ">> }

\* The provider's streams: the k-th chunk of the greeting and of a reply.
GreetingScript == << <<"W">>, <<"e", "l">>, <<"c">>, <<"o">> >>
ReplyScript == << <<"Y">>, <<"o", "u">>, <<"*">>, <<".">> >>

\* Date.now() at a call: the clock has not moved since the last call, or has.
Clock == { t \in {now, now + 1} : t <= MaxClock }

HelloText == <<"Hello!">>
InitErrorText == <<"Sorry, something went wrong while starting our session.">>
SendErrorText == <<"I seem to be having trouble connecting.">>

\* String.prototype.trim: whitespace removed from both ends.
RECURSIVE TrimStart(_)
TrimStart(s) ==
    IF s = <<>> THEN <<>>
    ELSE IF Head(s) \in Whitespace THEN TrimStart(Tail(s)) ELSE s

RECURSIVE TrimEnd(_)
TrimEnd(s) ==
    IF s = <<>> THEN <<>>
    ELSE IF s[Len(s)] \in Whitespace THEN TrimEnd(SubSeq(s, 1, Len(s) - 1)) ELSE s

Trim(s) == TrimEnd(TrimStart(s))

Message(id, sender, text) == [id |-> id, sender |-> sender, text |-> text]

----------------------------------------------------------------------------
(* The pieces of initializeChat *)

InitialBotMessage(t) == Message([tag |-> "bot-init", t |-> t], BOT, <<>>)

\* setMessages([{ ...initialBotMessage, text }])
InitMerge(prev, id, text) == << [InitialBotMessage(id.t) EXCEPT !.text = text] >>

InitErrorMessage == Message([tag |-> "error-init", t |-> 0], BOT, InitErrorText)

InitErrorMessagesAppended(prev) == Append(prev, InitErrorMessage)
\* catch: setMessages([{ id: 'error-init', ... }])
InitErrorMessages(prev) == << InitErrorMessage >>

----------------------------------------------------------------------------
(* The pieces of handleSendMessage *)

CanSubmitIgnoringLoading(input, loading, session) ==
    ~ (Trim(input) = <<>> \/ session = NoChat)
\* if (!userInput.trim() || isLoading || !chat) return;
CanSubmit(input, loading, session) ==
    ~ (Trim(input) = <<>> \/ loading \/ session = NoChat)

UserMessageTrimmed(t, input) == Message([tag |-> "user", t |-> t], USER, Trim(input))
UserMessage(t, input) == Message([tag |-> "user", t |-> t], USER, input)

BotPlaceholderTyping(t) == Message([tag |-> "bot", t |-> t], BOT, <<"...">>)
\* { id: botMessageId, sender: Sender.BOT, text: '' }
BotPlaceholder(t) == Message([tag |-> "bot", t |-> t], BOT, <<>>)

MergeFragmentFiltered(prev, id, text) ==
    SelectSeq([k \in DOMAIN prev |-> [prev[k] EXCEPT !.text = text]],
              LAMBDA m : m.id = id)
\* prev.map(msg => msg.id === botMessageId ? { ...msg, text } : msg)
MergeFragment(prev, id, text) ==
    [k \in DOMAIN prev |-> IF prev[k].id = id THEN [prev[k] EXCEPT !.text = text]
                           ELSE prev[k]]

SendMessageParamsCleared(input) == [message |-> <<>>]
\* sendMessageStream({ message: userInput }): userInput as the handler's render
\* captured it, whatever setUserInput('') queued in between.
SendMessageParams(input) == [message |-> input]

ErrorMessage(t) == Message([tag |-> "error", t |-> t], BOT, SendErrorText)

ErrorReplaces(prev, t) == << ErrorMessage(t) >>
\* catch: setMessages(prev => [...prev, errorMessage])
ErrorAppended(prev, t) == Append(prev, ErrorMessage(t))

\* disabled={isLoading} on the input control
InputDisabled == isLoading

----------------------------------------------------------------------------
(* State *)

\* A call of initializeChat or handleSendMessage: where it stands (pc), its
\* locals (the placeholder's id, and text with the number of chunks it holds).
Turn(kind, pc, botId) ==
    [kind |-> kind, pc |-> pc, botId |-> botId, text |-> <<>>, nfrags |-> 0]

\* A call that has returned: its locals are gone.
Returned(turn, pc) == Turn(turn.kind, pc, NoId)

Outstanding(i) == turns[i].pc \in {"send", "stream"}

\* What the user can put in the input buffer.
Inputs == Blanks \cup { UserScript[Cardinality({ i \in DOMAIN turns : turns[i].kind = "user" }) + 1] }

UserTurns == { i \in DOMAIN turns : turns[i].kind = "user" }
InitTurns == { i \in DOMAIN turns : turns[i].kind = "init" }
OutstandingTurns == { i \in DOMAIN turns : Outstanding(i) }

\* The text the call i sent to the provider (line 63, line 113).
InputOf(i) == (CHOOSE e \in { sent[k] : k \in DOMAIN sent } : e.turn = i).message

\* React.StrictMode mounts, unmounts and mounts again in a development build.
EffectRunsPerMount == IF strictDev THEN 2 ELSE 1

Mounted == effectRuns = EffectRunsPerMount

Init ==
    /\ chat = NoChat
    /\ messages = <<>>
    /\ userInput = <<>>
    /\ isLoading = TRUE
    /\ now = 0
    /\ turns = <<>>
    /\ sent = <<>>
    /\ strictDev \in BOOLEAN
    /\ effectRuns = 0
    /\ sessionOk \in BOOLEAN
    /\ lastOp = "step"

----------------------------------------------------------------------------
(* Actions *)

\* useEffect(() => { initializeChat(); }): initializeChat up to its first await.
MountEffect ==
    /\ effectRuns < EffectRunsPerMount
    /\ effectRuns' = effectRuns + 1
    /\ lastOp' = "step"
    /\ IF sessionOk   \* createChatSession() returns, or throws into the catch
         THEN \E t \in Clock :
              /\ now' = t
              /\ isLoading' = TRUE
              /\ chat' = Len(turns) + 1
              /\ messages' = << InitialBotMessage(t) >>
              /\ turns' = Append(turns, Turn("init", "send", InitialBotMessage(t).id))
              /\ sent' = Append(sent, [turn |-> Len(turns) + 1,
                                      message |-> SendMessageParams(HelloText).message])
         ELSE /\ messages' = InitErrorMessages(messages)
              /\ isLoading' = FALSE
              /\ turns' = Append(turns, Turn("init", "failed", NoId))
              /\ UNCHANGED <<chat, sent, now>>
    /\ UNCHANGED <<userInput, strictDev, sessionOk>>

\* await chatSession.sendMessageStream(...) resolves; let text = ''.
InitStreamOpened(i) ==
    /\ Mounted
    /\ turns[i].kind = "init" /\ turns[i].pc = "send"
    /\ turns' = [turns EXCEPT ![i].pc = "stream"]
    /\ lastOp' = "step"
    /\ UNCHANGED <<chat, messages, userInput, isLoading, now, sent, strictDev,
                   effectRuns, sessionOk>>

\* One iteration of for await: text += chunk.text; setMessages([...]).
InitChunk(i) ==
    /\ Mounted
    /\ turns[i].kind = "init" /\ turns[i].pc = "stream"
    /\ turns[i].nfrags < MaxFrags
    /\ LET text == turns[i].text \o GreetingScript[turns[i].nfrags + 1]
       IN  /\ turns' = [turns EXCEPT ![i].text = text, ![i].nfrags = @ + 1]
           /\ messages' = InitMerge(messages, turns[i].botId, text)
    /\ lastOp' = "step"
    /\ UNCHANGED <<chat, userInput, isLoading, now, sent, strictDev,
                   effectRuns, sessionOk>>

\* The stream ends: finally setIsLoading(false).
InitSuccess(i) ==
    /\ Mounted
    /\ turns[i].kind = "init" /\ turns[i].pc = "stream"
    /\ turns' = [turns EXCEPT ![i] = Returned(@, "done")]
    /\ isLoading' = FALSE
    /\ lastOp' = "step"
    /\ UNCHANGED <<chat, messages, userInput, now, sent, strictDev,
                   effectRuns, sessionOk>>

\* The send or the stream throws: catch, then finally.
InitFailure(i) ==
    /\ Mounted
    /\ turns[i].kind = "init" /\ Outstanding(i)
    /\ turns' = [turns EXCEPT ![i] = Returned(@, "failed")]
    /\ messages' = InitErrorMessages(messages)
    /\ isLoading' = FALSE
    /\ lastOp' = "step"
    /\ UNCHANGED <<chat, userInput, now, sent, strictDev,
                   effectRuns, sessionOk>>

\* onChange={(e) => setUserInput(e.target.value)}
SetUserInput(v) ==
    /\ Mounted
    /\ userInput' = v
    /\ lastOp' = "step"
    /\ UNCHANGED <<chat, messages, isLoading, now, turns, sent, strictDev,
                   effectRuns, sessionOk>>

\* onSubmit: handleSendMessage up to its first await.
HandleSendMessage ==
    /\ Mounted
    /\ IF CanSubmit(userInput, isLoading, chat)
       THEN \E t \in Clock :
            /\ Len(turns) < MaxTurns
            /\ now' = t
            /\ messages' = Append(messages, UserMessage(t, userInput))
            /\ userInput' = <<>>
            /\ isLoading' = TRUE
            /\ turns' = Append(turns, Turn("user", "send", NoId))
            /\ sent' = Append(sent, [turn |-> Len(turns) + 1,
                                    message |-> SendMessageParams(userInput).message])
            /\ lastOp' = "step"
       ELSE /\ lastOp' = "ignored"
            /\ UNCHANGED <<messages, userInput, isLoading, turns, sent, now>>
    /\ UNCHANGED <<chat, strictDev, effectRuns, sessionOk>>

\* await chat.sendMessageStream(...) resolves: the placeholder is appended.
SendStreamOpened(i) ==
    /\ turns[i].kind = "user" /\ turns[i].pc = "send"
    /\ \E t \in Clock :
         /\ now' = t
         /\ turns' = [turns EXCEPT ![i].pc = "stream", ![i].botId = BotPlaceholder(t).id]
         /\ messages' = Append(messages, BotPlaceholder(t))
    /\ lastOp' = "step"
    /\ UNCHANGED <<chat, userInput, isLoading, sent, strictDev, effectRuns, sessionOk>>

\* One iteration of for await: text += chunk.text; setMessages(prev => prev.map(...)).
SendChunk(i) ==
    /\ turns[i].kind = "user" /\ turns[i].pc = "stream"
    /\ turns[i].nfrags < MaxFrags
    /\ LET text == turns[i].text \o ReplyScript[turns[i].nfrags + 1]
       IN  /\ turns' = [turns EXCEPT ![i].text = text, ![i].nfrags = @ + 1]
           /\ messages' = MergeFragment(messages, turns[i].botId, text)
    /\ lastOp' = "step"
    /\ UNCHANGED <<chat, userInput, isLoading, now, sent, strictDev,
                   effectRuns, sessionOk>>

\* The stream ends: finally setIsLoading(false).
SendSuccess(i) ==
    /\ turns[i].kind = "user" /\ turns[i].pc = "stream"
    /\ turns' = [turns EXCEPT ![i] = Returned(@, "done")]
    /\ isLoading' = FALSE
    /\ lastOp' = "step"
    /\ UNCHANGED <<chat, messages, userInput, now, sent, strictDev,
                   effectRuns, sessionOk>>

\* The send or the stream throws: catch, then finally.
SendFailure(i) ==
    /\ turns[i].kind = "user" /\ Outstanding(i)
    /\ \E t \in Clock :
         /\ now' = t
         /\ messages' = ErrorAppended(messages, t)
    /\ turns' = [turns EXCEPT ![i] = Returned(@, "failed")]
    /\ isLoading' = FALSE
    /\ lastOp' = "step"
    /\ UNCHANGED <<chat, userInput, sent, strictDev, effectRuns, sessionOk>>

Next ==
    \/ MountEffect
    \/ \E i \in DOMAIN turns : InitStreamOpened(i)
    \/ \E i \in DOMAIN turns : InitChunk(i)
    \/ \E i \in DOMAIN turns : InitSuccess(i)
    \/ \E i \in DOMAIN turns : InitFailure(i)
    \/ \E v \in Inputs : SetUserInput(v)
    \/ HandleSendMessage
    \/ \E i \in DOMAIN turns : SendStreamOpened(i)
    \/ \E i \in DOMAIN turns : SendChunk(i)
    \/ \E i \in DOMAIN turns : SendSuccess(i)
    \/ \E i \in DOMAIN turns : SendFailure(i)

Spec == Init /\ [][Next]_vars

----------------------------------------------------------------------------
(* Properties *)

Last(s) == s[Len(s)]

\* The fragments of a sequence, joined in order.
RECURSIVE Concat(_)
Concat(fs) == IF fs = <<>> THEN <<>> ELSE Head(fs) \o Concat(Tail(fs))

\* s with one element added at its end, the rest as it was
Extends(s, t) == Len(t) = Len(s) + 1 /\ SubSeq(t, 1, Len(s)) = s

IsSuffix(s, t) == Len(s) <= Len(t) /\ s = SubSeq(t, Len(t) - Len(s) + 1, Len(t))

\* The texts of the USER messages of a list, in list order.
RECURSIVE UserTexts(_)
UserTexts(ms) ==
    IF ms = <<>> THEN <<>>
    ELSE (IF Head(ms).sender = USER THEN << Head(ms).text >> ELSE <<>>)
         \o UserTexts(Tail(ms))

\* The texts submitted in the accepted calls of handleSendMessage, in call order.
RECURSIVE SubmittedTexts(_)
SubmittedTexts(log) ==
    IF log = <<>> THEN <<>>
    ELSE (IF turns[Head(log).turn].kind = "user" THEN << Head(log).message >> ELSE <<>>)
         \o SubmittedTexts(Tail(log))

\* The conditions under which the specification says a submission is ignored.
MustIgnore == Trim(userInput) = <<>> \/ isLoading \/ chat = NoChat

\* The call i fails in this step.
FailsNow(i) ==
    /\ turns'[i].pc = "failed"
    /\ i \in DOMAIN turns => turns[i].pc # "failed"

\* The stream of the call i ends in this step.
SucceedsNow(i) == turns[i].pc = "stream" /\ turns'[i].pc = "done"

\* C1: in every reachable state at most one turn (bootstrap or user turn) is
\* between its send and the end of its stream.
C1_AtMostOneTurnInFlight == Cardinality(OutstandingTurns) <= 1

\* C2: once the application is mounted, isLoading is true if and only if a
\* send/stream operation is outstanding.
C2_PendingIffTurnOutstanding ==
    Mounted => (isLoading <=> OutstandingTurns # {})

\* C3: a submission made while the input is empty or whitespace-only, or while
\* isLoading is true, or while there is no session, changes neither the message
\* list, nor isLoading, nor the input buffer, and makes no call to the provider.
C3_IgnoredSubmissionIsNoOp ==
    [][ (HandleSendMessage /\ MustIgnore)
          => UNCHANGED <<messages, isLoading, userInput, sent, turns>> ]_vars

\* C3 witness: a submission has just been ignored only because a turn is pending
\* (the input is not blank and a session exists).
C3_Witness ==
    /\ lastOp = "ignored"
    /\ isLoading /\ Trim(userInput) # <<>> /\ chat # NoChat

\* C4: an accepted submission adds exactly one message at the end of the list, a
\* USER message whose text is the input buffer as it was, untrimmed; and the
\* USER messages of the list carry the submitted texts in call order.
C4_AcceptedSubmissionAppendsUserMessage ==
    /\ [][ (HandleSendMessage /\ ~MustIgnore)
             => /\ Extends(messages, messages')
                /\ Last(messages').sender = USER
                /\ Last(messages').text = userInput ]_vars
    /\ [] IsSuffix(UserTexts(messages), SubmittedTexts(sent))

\* C4 witness: two submissions were accepted, the first with trailing whitespace,
\* and both USER messages are in the list in that order.
C4_Witness ==
    /\ UserTexts(messages) = << UserScript[1], UserScript[2] >>
    /\ Trim(UserScript[1]) # UserScript[1]
    /\ Last(messages).sender = USER

\* C5: while a call streams, the BOT message it fills holds exactly the
\* concatenation of the fragments that call has received so far.
C5_TargetTextIsConcatenationSoFar ==
    \A i \in DOMAIN turns :
        turns[i].pc = "stream" =>
            /\ turns[i].text =
                 Concat(SubSeq(IF turns[i].kind = "init" THEN GreetingScript
                               ELSE ReplyScript, 1, turns[i].nfrags))
            /\ \E k \in DOMAIN messages :
                 /\ messages[k].id = turns[i].botId
                 /\ messages[k].sender = BOT
                 /\ messages[k].text = turns[i].text

\* C6: when a user turn fails, at its send or in its stream, one BOT error message
\* is added at the end of the list and the messages before it are as they were.
C6_FailedTurnAppendsOneError ==
    [][ \A i \in DOMAIN turns :
          (turns[i].kind = "user" /\ FailsNow(i))
            => /\ Extends(messages, messages')
               /\ Last(messages').sender = BOT
               /\ Last(messages').text = SendErrorText ]_vars

\* C6 witness: a user turn failed after a fragment: the list ends with the USER
\* message, the partly filled placeholder and the error message.
C6_Witness ==
    /\ \E i \in UserTurns : turns[i].pc = "failed"
    /\ Len(messages) >= 3
    /\ messages[Len(messages) - 2].sender = USER
    /\ messages[Len(messages) - 1].sender = BOT
    /\ messages[Len(messages) - 1].text = ReplyScript[1]
    /\ Last(messages).text = SendErrorText
    /\ ~isLoading

\* C7: when initializeChat fails, at session creation, at the bootstrap send or in
\* the stream, the message list becomes the single synthetic error message and
\* isLoading becomes false.
C7_FailedInitReplacesList ==
    [][ \A i \in DOMAIN turns' :
          (turns'[i].kind = "init" /\ FailsNow(i))
            => /\ messages' = << InitErrorMessage >>
               /\ isLoading' = FALSE ]_vars

\* C7 witness: the bootstrap turn was sent and then failed; the list holds the
\* error message alone.
C7_Witness ==
    /\ \E i \in InitTurns :
         /\ turns[i].pc = "failed"
         /\ \E k \in DOMAIN sent : sent[k].turn = i
    /\ messages = << InitErrorMessage >>
    /\ ~isLoading

\* C8: isLoading is cleared only when the turn that set it has run to completion
\* or failure: no step clears it while a send/stream operation is outstanding.
C8_PendingClearedOnlyAtTurnEnd ==
    [][ (isLoading /\ ~isLoading')
          => \A i \in DOMAIN turns' : turns'[i].pc \notin {"send", "stream"} ]_vars

\* C9: when the bootstrap stream ends, the list is the one BOT message holding the
\* whole greeting; when a user turn's stream ends, the list ends with that turn's
\* USER message and the BOT message holding the whole reply, and, all turns before
\* it having succeeded, holds the greeting and one such pair per turn; isLoading is
\* false in both cases.
C9_EndToEnd ==
    [][ \A i \in DOMAIN turns :
          SucceedsNow(i) =>
            /\ isLoading' = FALSE
            /\ IF turns[i].kind = "init"
               THEN /\ Len(messages') = 1
                    /\ messages'[1].sender = BOT
                    /\ messages'[1].text = turns[i].text
               ELSE /\ Len(messages') >= 2
                    /\ messages'[Len(messages') - 1].sender = USER
                    /\ messages'[Len(messages') - 1].text = InputOf(i)
                    /\ Last(messages').sender = BOT
                    /\ Last(messages').text = turns[i].text
                    /\ (\A j \in 1..(i - 1) : turns[j].pc = "done")
                         => Len(messages') = 1 + 2 * Cardinality({ j \in UserTurns : j <= i })
      ]_vars

\* C10: once mounted, the input control is disabled if and only if isLoading is
\* true or initializeChat has failed.
C10_InputDisabledIffPendingOrInitFailed ==
    Mounted =>
        (InputDisabled <=> (isLoading \/ \E i \in InitTurns : turns[i].pc = "failed"))

----------------------------------------------------------------------------
(* ChatBubble: formatText and the markup it hands to dangerouslySetInnerHTML. *)
(* The markup is a sequence whose elements are the characters of the text    *)
(* and the tags formatText inserts.                                           *)

MaxTextLen == 5     \* characters of a message text that is rendered

StrongOpen == "<strong class=\"font-semibold\">"
StrongClose == "</strong>"
LineBreak == "<br />"
FormatTags == { StrongOpen, StrongClose, LineBreak }

\* The characters a provider's text is made of here.
TextAlphabet == { "a", "*", "\n", "<", ">" }

StarsAt(s, i) == i + 1 <= Len(s) /\ s[i] = "*" /\ s[i + 1] = "*"

\* Where /\*\*(.*?)\*\*/ opened at i can close: at a later "**" with no line
\* terminator before it (. matches none).
Closers(s, i) ==
    { j \in (i + 2)..(Len(s) - 1) :
        StarsAt(s, j) /\ \A k \in (i + 2)..(j - 1) : s[k] # "\n" }

\* text.replace(/\*\*(.*?)\*\*/g, '<strong class="font-semibold">$1</strong>'),
\* from position i on: leftmost match, shortest group.
RECURSIVE ReplaceBold(_, _)
ReplaceBold(s, i) ==
    IF i > Len(s) THEN <<>>
    ELSE IF StarsAt(s, i) /\ Closers(s, i) # {}
         THEN LET j == CHOOSE c \in Closers(s, i) : \A d \in Closers(s, i) : c <= d
              IN  << StrongOpen >> \o SubSeq(s, i + 2, j - 1) \o << StrongClose >>
                  \o ReplaceBold(s, j + 2)
         ELSE << s[i] >> \o ReplaceBold(s, i + 1)

\* .replace(/\n/g, '<br />')
ReplaceNewlines(s) == [k \in DOMAIN s |-> IF s[k] = "\n" THEN LineBreak ELSE s[k]]

FormatText(text) == ReplaceNewlines(ReplaceBold(text, 1))

\* What each bubble sets as its inner HTML.
Rendered == [k \in DOMAIN messages |-> FormatText(messages[k].text)]

\* A production build whose bootstrap stream is open ...
FormatInit ==
    /\ chat = 1
    /\ messages = << InitialBotMessage(0) >>
    /\ userInput = <<>>
    /\ isLoading = TRUE
    /\ now = 0
    /\ turns = << Turn("init", "stream", InitialBotMessage(0).id) >>
    /\ sent = << [turn |-> 1, message |-> HelloText] >>
    /\ strictDev = FALSE
    /\ effectRuns = 1
    /\ sessionOk = TRUE
    /\ lastOp = "step"

\* ... and the provider sends any text, a character at a time (initializeChat's
\* for await body), each state being rendered.
FormatChunk(c) ==
    /\ Len(turns[1].text) < MaxTextLen
    /\ turns' = [turns EXCEPT ![1].text = @ \o << c >>]
    /\ messages' = InitMerge(messages, turns[1].botId, turns[1].text \o << c >>)
    /\ UNCHANGED <<chat, userInput, isLoading, now, sent, strictDev, effectRuns,
                   sessionOk, lastOp>>

FormatNext == \E c \in TextAlphabet : FormatChunk(c)

SpecFormat == FormatInit /\ [][FormatNext]_vars

\* The characters the rendering surface reads as markup.
MarkupSignificant == { "<", ">", "&" }

\* C11: the markup of every rendered message holds no markup-significant
\* character of the text: the only markup in it is the tags formatText inserts
\* for **text** and for a newline.
C11_RenderedTextIsInert ==
    \A k \in DOMAIN Rendered :
        \A j \in DOMAIN Rendered[k] :
            Rendered[k][j] \in FormatTags \/ Rendered[k][j] \notin MarkupSignificant

----------------------------------------------------------------------------
(* Message identifiers *)

\* C12: in every reachable state the messages of the list have pairwise
\* distinct ids, whatever the clock reads when the ids are built, two
\* messages made within one tick and the error messages included.
C12_IdsPairwiseDistinct ==
    \A j, k \in DOMAIN messages : j # k => messages[j].id # messages[k].id

----------------------------------------------------------------------------
(* The mount effect *)

\* C14: initializeChat runs exactly once per application start: over any
\* execution at most one call of it is ever made, and at most one bootstrap
\* turn ("Hello!") is sent to the provider.
C14_InitializeRunsOnce ==
    /\ Cardinality(InitTurns) <= 1
    /\ Cardinality({ k \in DOMAIN sent : sent[k].message = HelloText }) <= 1
    /\ Mounted => Cardinality(InitTurns) = 1

----------------------------------------------------------------------------
(* Merging a fragment *)

\* The call i merges one more fragment in this step.
ChunkStep(i) ==
    /\ turns[i].pc = "stream" /\ turns'[i].pc = "stream"
    /\ turns'[i].nfrags = turns[i].nfrags + 1

\* The positions of the list whose text this step changes.
TextChanged == { k \in DOMAIN messages \cap DOMAIN messages' :
                   messages'[k].text # messages[k].text }

\* Every message keeps its position, id and sender in this step.
SameIdsAndSenders ==
    /\ Len(messages') = Len(messages)
    /\ \A k \in DOMAIN messages :
         /\ messages'[k].id = messages[k].id
         /\ messages'[k].sender = messages[k].sender

\* C13: a fragment-merge step changes only the text of the one placeholder
\* BOT message of the streaming turn; every other message's text, and every
\* message's id, sender and position, stay as they were.
C13_MergeTouchesOnlyThePlaceholder ==
    [][\A i \in DOMAIN turns :
         ChunkStep(i) =>
           /\ SameIdsAndSenders
           /\ Cardinality(TextChanged) <= 1
           /\ \A k \in TextChanged :
                messages[k].sender = BOT /\ messages[k].id = turns[i].botId]_vars

----------------------------------------------------------------------------
(* The placeholder of a user turn *)

\* The call i of handleSendMessage waits for a fragment or an error of the
\* provider that has not come yet.
AwaitingProvider(i) ==
    turns[i].kind = "user" /\ Outstanding(i) /\ turns[i].nfrags = 0

\* This step is an accepted submission: a call of handleSendMessage begins.
SubmitStep == Len(turns') = Len(turns) + 1 /\ Last(turns').kind = "user"

\* In this step the send call of the call i returns the stream.
StreamOpens(i) ==
    turns[i].kind = "user" /\ turns[i].pc = "send" /\ turns'[i].pc = "stream"

\* C15: at every point of a user turn where the provider has produced neither
\* a fragment nor an error, the last message of the list is the turn's BOT
\* placeholder with empty text (the placeholder is appended right after the
\* USER message, before the send call, as in initializeChat).
C15_PlaceholderFromSubmission ==
    \A i \in DOMAIN turns :
        AwaitingProvider(i) =>
            /\ messages # <<>>
            /\ Last(messages) = Message(turns[i].botId, BOT, <<>>)

\* C15, amended: an accepted submission appends the USER message and nothing
\* after it; the empty BOT placeholder is appended, at the end of the list,
\* by the step in which the send call returns the stream, before any fragment
\* is merged; a call whose send fails never appends a placeholder.
C15_PlaceholderAppendedWhenStreamOpens ==
    [][/\ SubmitStep => Extends(messages, messages') /\ Last(messages').sender = USER
       /\ \A i \in DOMAIN turns :
            /\ StreamOpens(i) =>
                 /\ Extends(messages, messages')
                 /\ Last(messages') = Message(turns'[i].botId, BOT, <<>>)
                 /\ turns'[i].botId.tag = "bot"
                 /\ turns'[i].nfrags = 0
            /\ (turns[i].kind = "user" /\ turns[i].pc = "send"
                  /\ turns'[i].pc = "failed") =>
                 /\ Extends(messages, messages')
                 /\ Last(messages').id.tag = "error"]_vars

\* A user turn whose stream has opened and has yielded nothing yet, its
\* placeholder being the last message.
C15_Witness ==
    \E i \in DOMAIN turns :
        /\ AwaitingProvider(i) /\ turns[i].pc = "stream"
        /\ messages # <<>>
        /\ Last(messages) = Message(turns[i].botId, BOT, <<>>)

----------------------------------------------------------------------------
(* Growth of the list *)

\* Every message of the list is still there after this step, at its place,
\* with its id and sender; messages are added at the end only.
KeepsMessages ==
    /\ Len(messages') >= Len(messages)
    /\ \A k \in DOMAIN messages :
         /\ messages'[k].id = messages[k].id
         /\ messages'[k].sender = messages[k].sender

\* The ids of the placeholders that calls are streaming into.
StreamingIds == { turns[i].botId : i \in { j \in DOMAIN turns : turns[j].pc = "stream" } }

\* This step is a step of a call of initializeChat.
InitStep ==
    \/ Len(turns') = Len(turns) + 1 /\ Last(turns').kind = "init"
    \/ \E i \in DOMAIN turns : turns[i].kind = "init" /\ turns'[i] # turns[i]

----------------------------------------------------------------------------
(* Send calls *)

\* The send calls the call i has made.
SendsOf(log, i) == { k \in DOMAIN log : log[k].turn = i }

\* C17: an accepted submission makes exactly one send call, carrying the
\* text of the USER message appended for it; no other step of a user turn,
\* a failure included, makes a send call: a send call is made only as a call
\* of handleSendMessage or initializeChat begins.
C17_OneSendPerAcceptedSubmission ==
    [][/\ SubmitStep =>
            /\ Extends(sent, sent')
            /\ Last(sent').turn = Len(turns')
            /\ Last(messages').sender = USER
            /\ Last(sent').message = Last(messages').text
       /\ sent' # sent => Len(turns') = Len(turns) + 1 /\ Extends(sent, sent')
       /\ \A i \in DOMAIN turns' :
            turns'[i].kind = "user" => Cardinality(SendsOf(sent', i)) = 1]_vars

\* A user turn has failed, other steps have followed, and its one send call,
\* with the text as typed, is still the last one made.
C17_Witness ==
    /\ turns # <<>> /\ sent # <<>>
    /\ Last(turns).kind = "user" /\ Last(turns).pc = "failed"
    /\ Last(sent).turn = Len(turns)
    /\ Last(sent).message = <<"a", " ">>
    /\ userInput # <<>>

====
